---- MODULE Spec2Model ----
(***************************************************************************)
(* A model of qscan's scanner library (src/src/lib.rs) and of the print    *)
(* level dispatch of its command line front end (src/qsc/src/main.rs).     *)
(*                                                                         *)
(* Strings are sequences of one-character strings: "1,9" is <<"1",",","9">>*)
(***************************************************************************)
EXTENDS Integers, Sequences, FiniteSets, TLC

VARIABLES
    \* ---- QScanner fields (lib.rs 46-52) and the caller's arguments
    ips,          \* Vec<IpAddr>
    ports,        \* Vec<u16>
    batch,        \* u16
    tries,        \* NonZeroU8 (after the clamp of lib.rs 79)
    tries_arg,    \* the tries argument handed to QScanner::new
    printlevel,   \* args.printlevel of main
    rt_print,     \* the rt_print argument of scan_tcp_connect
    \* ---- scan_tcp_connect locals (lib.rs 207-235)
    pc,           \* position of the run
    panic,        \* which panic!/unwrap unwound the run ("" = none)
    seed_i,       \* the loop variable of `for _ in 0..self.batch`
    sock_it,      \* SockIter: the state of itertools' Product
    ftrs,         \* FuturesUnordered: probe id -> state of that future
    open_soc,     \* the returned Vec<SocketAddr>
    \* ---- observations (not program state)
    printed,      \* the lines println! wrote during the scan
    launched,     \* the sockets handed to scan_socket_tcp_connect, in order
    settled,      \* the results ftrs.next() yielded, in order
    none_pulls,   \* how many times sock_it.next() returned None
    fatal_probe,  \* the future whose connect panicked, as it was then
    \* ---- the scanned hosts
    target,       \* socket -> what a connect to it and the close after it result in;
                  \* a socket outside its domain may answer anything
    \* ---- the parser runs (ports_parse / addresses_parse called alone)
    pp_in,        \* the ports string
    pp_out,       \* what ports_parse did with it
    ap_in,        \* the addresses string
    ap_out        \* what addresses_parse returned for it

scan_vars == <<ips, ports, batch, tries, tries_arg, printlevel, rt_print, pc, panic,
               seed_i, sock_it, ftrs, open_soc, printed, launched, settled, none_pulls,
               fatal_probe, target>>
parse_vars == <<pp_in, pp_out, ap_in, ap_out>>
vars == <<scan_vars, parse_vars>>

-----------------------------------------------------------------------------
\* Bounds of the model

\* largest batch argument tried
MaxBatch == 2
\* largest tries argument tried
MaxTriesArg == 2
\* longest ports string handed to ports_parse alone
MaxPortsLen == 5
\* longest addresses string handed to addresses_parse alone
MaxAddrsLen == 3

\* u16::MAX
U16Max == 65535
\* the highest print level main accepts
LastPrintLevel == 4
\* the print level of QSPrintMode::RealTime
RealTimeLevel == 3

-----------------------------------------------------------------------------
\* Strings

Min(a, b) == IF a < b THEN a ELSE b
Max(a, b) == IF a > b THEN a ELSE b

\* every string over alphabet of length at most n
StringsUpTo(alphabet, n) == UNION {[1..k -> alphabet] : k \in 0..n}

\* char::is_whitespace, over the characters the model uses
is_whitespace(c) == c = " "

\* s.chars().filter(|c| !c.is_whitespace()).collect()
filter_whitespace(s) == SelectSeq(s, LAMBDA c : ~is_whitespace(c))

\* position of the first sep in s, 0 when there is none
FirstIndex(s, sep) ==
    IF \E i \in 1..Len(s) : s[i] = sep
    THEN CHOOSE i \in 1..Len(s) : s[i] = sep /\ \A j \in 1..(i-1) : s[j] # sep
    ELSE 0

\* str::split(sep): the fields between the separators; "" splits into <<"">>
RECURSIVE split(_, _)
split(s, sep) ==
    LET i == FirstIndex(s, sep) IN
    IF i = 0 THEN <<s>>
    ELSE <<SubSeq(s, 1, i - 1)>> \o split(SubSeq(s, i + 1, Len(s)), sep)

IsDigit(c) == c \in {"0", "1", "2", "3", "4", "5", "6", "7", "8", "9"}

DigitVal(c) ==
    CASE c = "0" -> 0 [] c = "1" -> 1 [] c = "2" -> 2 [] c = "3" -> 3 [] c = "4" -> 4
      [] c = "5" -> 5 [] c = "6" -> 6 [] c = "7" -> 7 [] c = "8" -> 8 [] c = "9" -> 9

\* the digits of s read left to right, stopping with -1 once the value passes U16Max
RECURSIVE AccumulateU16(_, _)
AccumulateU16(s, acc) ==
    IF s = <<>> THEN acc
    ELSE LET v == acc * 10 + DigitVal(Head(s)) IN
         IF v > U16Max THEN -1 ELSE AccumulateU16(Tail(s), v)

\* str::parse::<u16>: an optional "+", then at least one digit, value at most u16::MAX
parse_u16(s) ==
    LET body == IF s # <<>> /\ Head(s) = "+" THEN Tail(s) ELSE s IN
    IF body = <<>> \/ \E i \in 1..Len(body) : ~IsDigit(body[i])
    THEN [ok |-> FALSE, val |-> 0]
    ELSE LET v == AccumulateU16(body, 0) IN
         IF v < 0 THEN [ok |-> FALSE, val |-> 0] ELSE [ok |-> TRUE, val |-> v]

-----------------------------------------------------------------------------
\* QScanner::ports_parse (lib.rs 85-106)

\* a..=b off by one at the top, as a..b would give
RangeExclusive(a, b) == IF a >= b THEN <<>> ELSE [i \in 1..(b - a) |-> a + i - 1]

\* range[0]..=range[1] as pv.extend sees it: empty when a > b
RangeInclusive(a, b) == IF a > b THEN <<>> ELSE [i \in 1..(b - a + 1) |-> a + i - 1]

\* p.split('-').map(str::parse).collect::<Result<Vec<u16>, _>>()
parse_range(p) ==
    LET fields == split(p, "-")
        parsed == [i \in 1..Len(fields) |-> parse_u16(fields[i])]
    IN  IF \E i \in 1..Len(parsed) : ~parsed[i].ok
        THEN [ok |-> FALSE, range |-> <<>>]
        ELSE [ok |-> TRUE, range |-> [i \in 1..Len(parsed) |-> parsed[i].val]]

\* the segment's ports put in front of pv instead of after it
ports_segment_prepend(pv, range) ==
    IF Len(range) = 1 THEN <<range[1]>> \o pv
    ELSE RangeInclusive(range[1], range[2]) \o pv

\* the match on range.len() for a segment that parsed to 1 or 2 fields
ports_segment(pv, range) ==
    IF Len(range) = 1 THEN Append(pv, range[1])
    ELSE pv \o RangeInclusive(range[1], range[2])

\* the for loop over the segments: the first bad segment panics
RECURSIVE ports_parse_loop(_, _)
ports_parse_loop(segs, pv) ==
    IF segs = <<>> THEN [panicked |-> FALSE, pv |-> pv]
    ELSE LET r == parse_range(Head(segs)) IN
         IF ~r.ok THEN [panicked |-> TRUE, pv |-> <<>>]              \* .unwrap()
         ELSE IF Len(r.range) \notin {1, 2}
              THEN [panicked |-> TRUE, pv |-> <<>>]                  \* Invalid Range
              ELSE ports_parse_loop(Tail(segs), ports_segment(pv, r.range))

ports_parse(s) == ports_parse_loop(split(filter_whitespace(s), ","), <<>>)

-----------------------------------------------------------------------------
\* The resolution environment of address_parse: what the CIDR parser, the system
\* resolver, the fallback DNS resolver and the file system answer for a token.
\*   A  an IP literal            N  a CIDR block of two addresses
\*   h  a host name the system resolver knows (two addresses)
\*   d  a host name only the fallback resolver knows (two addresses)
\*   f  a readable file          u  a file that cannot be opened
\*   anything else resolves to nothing and is no file

\* IpCidr::from_str(&addr)
IpCidr_from_str(addr) ==
    CASE addr = <<"A">> -> [ok |-> TRUE, addrs |-> <<"ipA">>]
      [] addr = <<"N">> -> [ok |-> TRUE, addrs |-> <<"ipN0", "ipN1">>]
      [] OTHER -> [ok |-> FALSE, addrs |-> <<>>]

\* str::to_socket_addrs: fails unless the string ends in a port
to_socket_addrs(s) ==
    LET n == Len(s) IN
    IF n >= 3 /\ SubSeq(s, n - 2, n) = <<":", "8", "0">>
    THEN LET host == SubSeq(s, 1, n - 3) IN
         CASE host = <<"A">> -> [ok |-> TRUE, addrs |-> <<"ipA">>]
           [] host = <<"h">> -> [ok |-> TRUE, addrs |-> <<"ipH0", "ipH1">>]
           [] OTHER -> [ok |-> FALSE, addrs |-> <<>>]
    ELSE [ok |-> FALSE, addrs |-> <<>>]

\* alt_resolver.lookup_ip(source)
lookup_ip(source) ==
    CASE source = <<"h">> -> [ok |-> TRUE, addrs |-> <<"ipH0", "ipH1">>]
      [] source = <<"d">> -> [ok |-> TRUE, addrs |-> <<"ipD0", "ipD1">>]
      [] OTHER -> [ok |-> FALSE, addrs |-> <<>>]

\* Path::new(addr).is_file()
is_file(addr) == addr \in {<<"f">>, <<"u">>}

\* File::open and reader.lines(): the second line of f is not valid text
file_lines(path) ==
    IF path = <<"f">>
    THEN [ok |-> TRUE,
          lines |-> <<[ok |-> TRUE, text |-> <<"A">>], [ok |-> FALSE, text |-> <<>>],
                      [ok |-> TRUE, text |-> <<"x">>], [ok |-> TRUE, text |-> <<"N">>]>>]
    ELSE [ok |-> FALSE, lines |-> <<>>]

-----------------------------------------------------------------------------
\* QScanner::domain_name_resolve_to_ip (lib.rs 154-166)
domain_name_resolve_to_ip(source) ==
    IF to_socket_addrs(source).ok THEN to_socket_addrs(source).addrs
    ELSE IF lookup_ip(source).ok THEN lookup_ip(source).addrs
    ELSE <<>>

\* QScanner::address_parse (lib.rs 141-152)
address_parse(addr) ==
    IF IpCidr_from_str(addr).ok THEN IpCidr_from_str(addr).addrs
    ELSE LET r == to_socket_addrs(addr \o <<":", "8", "0">>) IN
         IF r.ok THEN <<r.addrs[1]>>
         ELSE domain_name_resolve_to_ip(addr)

\* QScanner::read_addresses_from_file (lib.rs 169-186)
RECURSIVE read_lines(_, _)
read_lines(lines, acc) ==
    IF lines = <<>> THEN acc
    ELSE IF Head(lines).ok
         THEN read_lines(Tail(lines), acc \o address_parse(Head(lines).text))
         ELSE read_lines(Tail(lines), acc)

read_addresses_from_file(path) ==
    IF file_lines(path).ok
    THEN [ok |-> TRUE, ips |-> read_lines(file_lines(path).lines, <<>>)]
    ELSE [ok |-> FALSE, ips |-> <<>>]

\* the loop with `continue` written as `break`
RECURSIVE addresses_parse_loop_break(_, _)
addresses_parse_loop_break(addrs, acc) ==
    IF addrs = <<>> THEN acc
    ELSE LET addr == Head(addrs)
             parsed_addr == address_parse(addr)
         IN  IF parsed_addr # <<>>
             THEN addresses_parse_loop_break(Tail(addrs), acc \o parsed_addr)
             ELSE IF ~is_file(addr) THEN acc
             ELSE IF read_addresses_from_file(addr).ok
                  THEN addresses_parse_loop_break(Tail(addrs),
                                                  acc \o read_addresses_from_file(addr).ips)
                  ELSE addresses_parse_loop_break(Tail(addrs), acc)

\* the loop `for addr in addrs.split(',')` of addresses_parse (lib.rs 117-136)
RECURSIVE addresses_parse_loop(_, _)
addresses_parse_loop(addrs, acc) ==
    IF addrs = <<>> THEN acc
    ELSE LET addr == Head(addrs)
             parsed_addr == address_parse(addr)
         IN  IF parsed_addr # <<>>
             THEN addresses_parse_loop(Tail(addrs), acc \o parsed_addr)
             ELSE IF ~is_file(addr)
                  THEN addresses_parse_loop(Tail(addrs), acc)       \* not a file: continue
             ELSE IF read_addresses_from_file(addr).ok
                  THEN addresses_parse_loop(Tail(addrs),
                                            acc \o read_addresses_from_file(addr).ips)
                  ELSE addresses_parse_loop(Tail(addrs), acc)       \* unknown target

\* QScanner::addresses_parse (lib.rs 110-139)
addresses_parse(s) == addresses_parse_loop(split(filter_whitespace(s), ","), <<>>)

-----------------------------------------------------------------------------
\* sockiter::SockIter (lib.rs 279-306) over itertools' Product of ports and ips.
\* a is the position of the ports iterator, a_cur the port it last yielded
\* (0 = None), b the position of the current pass over ips.

SocketAddr(ip, port) == [ip |-> ip, port |-> port]

\* SockIter::new: iproduct!(ports, ips) pulls the first port at once
SockIter_new(ips_, ports_) ==
    IF Len(ports_) >= 1 THEN [a |-> 2, a_cur |-> 1, b |-> 1]
    ELSE [a |-> 1, a_cur |-> 0, b |-> 1]

\* Product::next over an outer iterator of len_a elements and an inner one of
\* len_b elements: the indices of the pair it yields, and its next state
Product_next(it, len_a, len_b) ==
    LET wrap == it.b > len_b
        \* self.b.next() gave None: the pass over the inner iterator restarts
        b0 == IF wrap THEN 1 ELSE it.b
        empty == wrap /\ len_b = 0
        \* the restarted pass has an element: the outer iterator advances
        a_cur1 == IF wrap /\ ~empty THEN (IF it.a <= len_a THEN it.a ELSE 0) ELSE it.a_cur
        a1 == IF wrap /\ ~empty /\ it.a <= len_a THEN it.a + 1 ELSE it.a
    IN  IF empty
        THEN [some |-> FALSE, ia |-> 0, ib |-> 0, it |-> [it EXCEPT !.b = 1]]
        ELSE [some |-> a_cur1 # 0, ia |-> a_cur1, ib |-> b0,
              it |-> [a |-> a1, a_cur |-> a_cur1, b |-> b0 + 1]]

\* the product taken as iproduct!(ips, ports): IP-major order
SockIter_next_ipmajor(it, ips_, ports_) ==
    LET r == Product_next(it, Len(ips_), Len(ports_)) IN
    IF r.some /\ r.ia <= Len(ips_) /\ r.ib <= Len(ports_)
    THEN [some |-> TRUE, item |-> SocketAddr(ips_[r.ia], ports_[r.ib]), it |-> r.it]
    ELSE [some |-> FALSE, item |-> SocketAddr("", 0), it |-> r.it]

\* SockIter::next: Product::next mapped to SocketAddr::new(*ip, *port)
SockIter_next(it, ips_, ports_) ==
    LET r == Product_next(it, Len(ports_), Len(ips_)) IN
    IF r.some
    THEN [some |-> TRUE, item |-> SocketAddr(ips_[r.ib], ports_[r.ia]), it |-> r.it]
    ELSE [some |-> FALSE, item |-> SocketAddr("", 0), it |-> r.it]

-----------------------------------------------------------------------------
\* QScanner::scan_socket_tcp_connect (lib.rs 237-271), one future of ftrs.
\* ntry is the loop variable of `for ntry in 0..tries`; phase tells which await
\* the future is suspended at; attempts and ok_at observe the connect calls.

NoSocket == SocketAddr("", 0)

new_probe(socket) ==
    [socket |-> socket, ntry |-> 0, phase |-> "connect", attempts |-> 0, ok_at |-> 0]

\* what tcp_connect (lib.rs 273-276) can resolve to
ConnectOutcomes == {"connected", "refused", "too many open files", "elapsed"}

\* the match without the "too many open files" test: the error is retried like any other
connect_step_no_fatal(p, outcome, tries_) ==
    LET q == [p EXCEPT !.attempts = @ + 1] IN
    IF outcome = "connected"
    THEN [kind |-> "pending", res |-> "",
          probe |-> [q EXCEPT !.phase = "shutdown", !.ok_at = q.attempts]]
    ELSE IF p.ntry = tries_ - 1
         THEN [kind |-> "ready", res |-> "Err", probe |-> q]
         ELSE [kind |-> "pending", res |-> "", probe |-> [q EXCEPT !.ntry = @ + 1]]

\* ntry is in the range 0..tries of the for loop (lib.rs 240)
try_range(ntry, tries_) == ntry < tries_

\* ntry == tries - 1 (lib.rs 253, 262)
last_try(ntry, tries_) == ntry = tries_ - 1

\* err_str.to_lowercase().contains("too many open files") (lib.rs 249)
is_fatal(err_str) == err_str = "too many open files"

\* the arm Ok(Ok(mut x)) up to x.shutdown() (lib.rs 242-243)
connect_arm_ok(q) ==
    [kind |-> "pending", res |-> "",
     probe |-> [q EXCEPT !.phase = "shutdown", !.ok_at = q.attempts]]

\* the arm Ok(Err(e)) (lib.rs 246-258)
connect_arm_err(q, err_str, tries_) ==
    IF is_fatal(err_str)
    THEN [kind |-> "panic", res |-> "", probe |-> q]
    ELSE IF last_try(q.ntry, tries_)
         THEN [kind |-> "ready", res |-> "Err", probe |-> q]
         ELSE [kind |-> "pending", res |-> "", probe |-> [q EXCEPT !.ntry = @ + 1]]

\* an expiry that returns Err at once, whatever the try
connect_arm_elapsed_no_retry(q, tries_) == [kind |-> "ready", res |-> "Err", probe |-> q]

\* an expiry taken for an open port: the arm returns Ok
connect_arm_elapsed_open(q, tries_) == [kind |-> "ready", res |-> "Ok", probe |-> q]

\* the arm Err(e), the timeout has elapsed (lib.rs 259-267)
connect_arm_elapsed(q, tries_) ==
    IF last_try(q.ntry, tries_)
    THEN [kind |-> "ready", res |-> "Err", probe |-> q]
    ELSE [kind |-> "pending", res |-> "", probe |-> [q EXCEPT !.ntry = @ + 1]]

\* one turn of the for loop, the match on self.tcp_connect(socket).await: the
\* future goes on ("pending"), returns ("ready", res = "Ok" or "Err") or panics;
\* past the range the loop is left and unreachable!() is met (lib.rs 240-270)
connect_step(p, outcome, tries_) ==
    IF ~try_range(p.ntry, tries_)
    THEN [kind |-> "unreachable", res |-> "", probe |-> p]
    ELSE LET q == [p EXCEPT !.attempts = @ + 1] IN
         CASE outcome = "connected" -> connect_arm_ok(q)
           [] outcome = "elapsed" -> connect_arm_elapsed(q, tries_)
           [] OTHER -> connect_arm_err(q, outcome, tries_)

\* the outcomes the host behind socket lets tcp_connect resolve to
allowed_connect(tg, socket) ==
    IF socket \in DOMAIN tg THEN {tg[socket].connect} ELSE ConnectOutcomes

\* the outcomes the host behind socket lets x.shutdown() resolve to
allowed_close(tg, socket) ==
    IF socket \in DOMAIN tg THEN {tg[socket].close_ok} ELSE BOOLEAN

\* x.shutdown().await?; return Ok(socket)
shutdown_step(p, closed_ok) ==
    IF closed_ok THEN [kind |-> "ready", res |-> "Ok", probe |-> p]
    ELSE [kind |-> "ready", res |-> "Err", probe |-> p]

-----------------------------------------------------------------------------
\* The runs

ScanIdle ==
    /\ ips = <<>> /\ ports = <<>> /\ batch = 0 /\ tries = 1 /\ tries_arg = 0
    /\ printlevel = 0 /\ rt_print = FALSE /\ panic = "" /\ seed_i = 0
    /\ sock_it = SockIter_new(<<>>, <<>>) /\ ftrs = <<>> /\ open_soc = <<>>
    /\ printed = <<>> /\ launched = <<>> /\ settled = <<>> /\ none_pulls = 0
    /\ fatal_probe = new_probe(NoSocket)
    /\ target = <<>>

ParseIdle ==
    /\ pp_in = <<>> /\ pp_out = [done |-> FALSE, panicked |-> FALSE, pv |-> <<>>]
    /\ ap_in = <<>> /\ ap_out = [done |-> FALSE, ips |-> <<>>]

\* the addresses and ports strings the scanner is constructed with
NewAddresses == {<<"A">>, <<"N">>, <<"x">>}
NewPorts == {<<"1">>, <<"1", ",", "9">>, <<"9", "-", "1">>, <<"a">>}

\* the tries argument stored as given
clamp_tries_none(t) == t

\* NonZeroU8::new(std::cmp::max(tries, 1)) (lib.rs 79)
clamp_tries(t) == Max(t, 1)

\* QScanner::new (lib.rs 73-81)
New(addresses, portspec, b, t) ==
    /\ pc = "new"
    /\ LET pr == ports_parse(portspec) IN
       IF pr.panicked
       THEN /\ pc' = "panicked" /\ panic' = "ports_parse"
            /\ UNCHANGED <<ips, ports, batch, tries>>
       ELSE /\ ips' = addresses_parse(addresses)
            /\ ports' = pr.pv
            /\ batch' = b
            /\ tries' = clamp_tries(t)
            /\ pc' = "main"
            /\ UNCHANGED panic
    /\ tries_arg' = t
    /\ UNCHANGED <<printlevel, rt_print, seed_i, sock_it, ftrs, open_soc, printed,
                   launched, settled, none_pulls, fatal_probe, target, parse_vars>>

\* the print levels main is started with: suppressed, real time, and one past the last
PrintLevels == {0, RealTimeLevel, LastPrintLevel + 1}

\* a match on args.printlevel without the `_ => panic!` arm
print_level_known_any(pl) == TRUE

\* the arms 0, 1 | 2, 3 and 4 of the match on args.printlevel (main.rs 93-96)
print_level_known(pl) == pl \in 0..LastPrintLevel

\* main's match on args.printlevel (main.rs 92-100)
MainPrintLevel(pl) ==
    /\ pc = "main"
    /\ printlevel' = pl
    /\ IF print_level_known(pl)
       THEN pc' = "scan" /\ UNCHANGED panic
       ELSE pc' = "panicked" /\ panic' = "Unknown print mode"
    /\ UNCHANGED <<ips, ports, batch, tries, tries_arg, rt_print, seed_i, sock_it, ftrs,
                   open_soc, printed, launched, settled, none_pulls, fatal_probe, target, parse_vars>>

\* scan_tcp_connect is entered (lib.rs 207-210)
ScanStart(rt) ==
    /\ pc = "scan"
    /\ rt_print' = rt
    /\ open_soc' = <<>>
    /\ sock_it' = SockIter_new(ips, ports)
    /\ ftrs' = <<>>
    /\ seed_i' = 0
    /\ pc' = "seed"
    /\ UNCHANGED <<ips, ports, batch, tries, tries_arg, printlevel, panic, printed,
                   launched, settled, none_pulls, fatal_probe, target, parse_vars>>

\* ftrs.push(self.scan_socket_tcp_connect(socket))
ftrs_push(f, socket, id) == f @@ (id :> new_probe(socket))

\* the future id leaves ftrs
ftrs_remove(f, id) == [i \in (DOMAIN f) \ {id} |-> f[i]]

\* the range written 0..=self.batch
seed_range_inclusive(i, b) == i <= b

\* i is in the range 0..self.batch
seed_range(i, b) == i < b

\* one iteration of `for _ in 0..self.batch` (lib.rs 212-218)
SeedStep ==
    /\ pc = "seed"
    /\ seed_range(seed_i, batch)
    /\ LET nx == SockIter_next(sock_it, ips, ports) IN
       /\ sock_it' = nx.it
       /\ IF nx.some
          THEN /\ ftrs' = ftrs_push(ftrs, nx.item, Len(launched) + 1)
               /\ launched' = Append(launched, nx.item)
               /\ seed_i' = seed_i + 1
               /\ UNCHANGED <<pc, none_pulls>>
          ELSE /\ pc' = "loop"                                   \* break
               /\ none_pulls' = none_pulls + 1
               /\ UNCHANGED <<ftrs, launched, seed_i>>
    /\ UNCHANGED <<ips, ports, batch, tries, tries_arg, printlevel, rt_print, panic,
                   open_soc, printed, settled, fatal_probe, target, parse_vars>>

\* the range 0..self.batch is used up
SeedEnd ==
    /\ pc = "seed"
    /\ ~seed_range(seed_i, batch)
    /\ pc' = "loop"
    /\ UNCHANGED <<ips, ports, batch, tries, tries_arg, printlevel, rt_print, panic, seed_i,
                   sock_it, ftrs, open_soc, printed, launched, settled, none_pulls,
                   fatal_probe, target, parse_vars>>

\* every settlement pushed to open_soc, Err too
record_result_all(open, res, socket) == Append(open, socket)

\* an Ok result put at the front of open_soc
record_result_front(open, res, socket) == IF res = "Ok" THEN <<socket>> \o open ELSE open

\* if let Ok(socket) = result { ... open_soc.push(socket) } (lib.rs 225-231)
record_result(open, res, socket) == IF res = "Ok" THEN Append(open, socket) ELSE open

\* a line for every settlement, Err too, when rt_print is set
rt_println_every_result(out, res, socket, rt) == IF rt THEN Append(out, socket) ELSE out

\* a line for every Ok settlement, rt_print or not
rt_println_unconditional(out, res, socket, rt) ==
    IF res = "Ok" THEN Append(out, socket) ELSE out

\* if rt_print { println!("{}", socket) } inside `if let Ok(socket) = result`
\* (lib.rs 225-228)
rt_println(out, res, socket, rt) == IF res = "Ok" /\ rt THEN Append(out, socket) ELSE out

\* the refill of lib.rs 221-223 that launches nothing
refill_never(f, nx, id) == f

\* if let Some(socket) = sock_it.next() { ftrs.push(...) } (lib.rs 221-223)
refill(f, nx, id) == IF nx.some THEN ftrs_push(f, nx.item, id) ELSE f

\* ftrs.next().await yields the result of future id, and the body of the
\* while let loop runs (lib.rs 220-232)
LoopBody(id, p, res) ==
    LET nx == SockIter_next(sock_it, ips, ports) IN
    /\ sock_it' = nx.it
    /\ ftrs' = refill(ftrs_remove(ftrs, id), nx, Len(launched) + 1)
    /\ launched' = IF nx.some THEN Append(launched, nx.item) ELSE launched
    /\ none_pulls' = IF nx.some THEN none_pulls ELSE none_pulls + 1
    /\ open_soc' = record_result(open_soc, res, p.socket)
    /\ printed' = rt_println(printed, res, p.socket, rt_print)
    /\ settled' = Append(settled, [id |-> id, socket |-> p.socket, res |-> res,
                                   attempts |-> p.attempts, ok_at |-> p.ok_at])
    /\ UNCHANGED <<pc, panic, fatal_probe>>

\* a panic inside a future unwinds scan_tcp_connect: its locals are dropped
Unwind(msg, p) ==
    /\ pc' = "panicked"
    /\ panic' = msg
    /\ fatal_probe' = p
    /\ ftrs' = <<>>
    /\ UNCHANGED <<sock_it, launched, none_pulls, open_soc, printed, settled>>

\* future id is polled and its tcp_connect has resolved to outcome
Connect(id, outcome) ==
    /\ pc = "loop"
    /\ id \in DOMAIN ftrs
    /\ ftrs[id].phase = "connect"
    /\ outcome \in allowed_connect(target, ftrs[id].socket)
    /\ LET r == connect_step(ftrs[id], outcome, tries) IN
       CASE r.kind = "pending" ->
              /\ ftrs' = [ftrs EXCEPT ![id] = r.probe]
              /\ UNCHANGED <<pc, panic, sock_it, launched, none_pulls, open_soc, printed,
                             settled, fatal_probe>>
         [] r.kind = "ready" -> LoopBody(id, r.probe, r.res)
         [] r.kind = "panic" -> Unwind("Too many open files", r.probe)
         [] r.kind = "unreachable" -> Unwind("unreachable", r.probe)
    /\ UNCHANGED <<ips, ports, batch, tries, tries_arg, printlevel, rt_print, seed_i,
                   target, parse_vars>>

\* future id is polled and its x.shutdown() has resolved
Shutdown(id, closed_ok) ==
    /\ pc = "loop"
    /\ id \in DOMAIN ftrs
    /\ ftrs[id].phase = "shutdown"
    /\ closed_ok \in allowed_close(target, ftrs[id].socket)
    /\ LET r == shutdown_step(ftrs[id], closed_ok) IN LoopBody(id, r.probe, r.res)
    /\ UNCHANGED <<ips, ports, batch, tries, tries_arg, printlevel, rt_print, seed_i,
                   target, parse_vars>>

\* ftrs.next() yields None: the loop ends and open_soc is returned (lib.rs 220, 234)
Return ==
    /\ pc = "loop"
    /\ DOMAIN ftrs = {}
    /\ pc' = "returned"
    /\ UNCHANGED <<ips, ports, batch, tries, tries_arg, printlevel, rt_print, panic, seed_i,
                   sock_it, ftrs, open_soc, printed, launched, settled, none_pulls,
                   fatal_probe, target, parse_vars>>

Init == pc = "new" /\ ScanIdle /\ ParseIdle

Next ==
    \/ \E addresses \in NewAddresses, portspec \in NewPorts,
          b \in 0..MaxBatch, t \in 0..MaxTriesArg : New(addresses, portspec, b, t)
    \/ \E pl \in PrintLevels : MainPrintLevel(pl)
    \/ \E rt \in BOOLEAN : ScanStart(rt)
    \/ SeedStep
    \/ SeedEnd
    \/ \E id \in DOMAIN ftrs, outcome \in ConnectOutcomes : Connect(id, outcome)
    \/ \E id \in DOMAIN ftrs, closed_ok \in BOOLEAN : Shutdown(id, closed_ok)
    \/ Return

Spec == Init /\ [][Next]_vars

\* a step of the scan itself: the executor polls scan_tcp_connect and the futures
\* in ftrs, and the timeout of tcp_connect (lib.rs 273-276) makes every connect resolve
ScanStep ==
    \/ SeedStep
    \/ SeedEnd
    \/ \E id \in DOMAIN ftrs, outcome \in ConnectOutcomes : Connect(id, outcome)
    \/ \E id \in DOMAIN ftrs, closed_ok \in BOOLEAN : Shutdown(id, closed_ok)
    \/ Return

\* a scanner QScanner::new has returned (lib.rs 73-81), about to be scanned with
InitLive ==
    /\ \E addresses \in NewAddresses, portspec \in NewPorts,
          b \in 0..MaxBatch, t \in 0..MaxTriesArg :
          /\ ~ports_parse(portspec).panicked
          /\ ips = addresses_parse(addresses)
          /\ ports = ports_parse(portspec).pv
          /\ batch = b
          /\ tries = clamp_tries(t)
          /\ tries_arg = t
    /\ pc = "scan"
    /\ printlevel = 0 /\ rt_print = FALSE /\ panic = "" /\ seed_i = 0
    /\ sock_it = SockIter_new(<<>>, <<>>) /\ ftrs = <<>> /\ open_soc = <<>>
    /\ printed = <<>> /\ launched = <<>> /\ settled = <<>> /\ none_pulls = 0
    /\ fatal_probe = new_probe(NoSocket)
    /\ target = <<>>
    /\ ParseIdle

\* the scan is entered as the library's own test enters it, with real-time
\* printing: scanner.scan_tcp_connect(true) (lib.rs 391)
NextLive == ScanStart(TRUE) \/ ScanStep

\* the scans that the executor does not abandon
SpecLive == InitLive /\ [][NextLive]_vars /\ WF_vars(ScanStep)

-----------------------------------------------------------------------------
\* The scan of a static target: every connect to a pair, and the close after it,
\* results in the same thing each time it is tried

\* the pairs of the target space
TargetPairs ==
    {SocketAddr(ips[i], ports[j]) : i \in 1..Len(ips), j \in 1..Len(ports)}

\* what a static host does: it accepts and closes cleanly, accepts and fails the
\* close, refuses, or lets the timeout elapse
StaticKinds ==
    {[connect |-> "connected", close_ok |-> TRUE],
     [connect |-> "connected", close_ok |-> FALSE],
     [connect |-> "refused", close_ok |-> TRUE],
     [connect |-> "elapsed", close_ok |-> TRUE]}

\* the hosts are what they are before the scan starts
FixTarget(tg) ==
    /\ pc = "scan"
    /\ DOMAIN target # TargetPairs
    /\ target' = tg
    /\ UNCHANGED <<ips, ports, batch, tries, tries_arg, printlevel, rt_print, pc, panic,
                   seed_i, sock_it, ftrs, open_soc, printed, launched, settled, none_pulls,
                   fatal_probe, parse_vars>>

NextStatic ==
    \/ \E addresses \in NewAddresses, portspec \in NewPorts,
          b \in 0..MaxBatch, t \in 0..MaxTriesArg : New(addresses, portspec, b, t)
    \/ \E pl \in PrintLevels : MainPrintLevel(pl)
    \/ \E tg \in [TargetPairs -> StaticKinds] : FixTarget(tg)
    \/ \E rt \in BOOLEAN : DOMAIN target = TargetPairs /\ ScanStart(rt)
    \/ SeedStep
    \/ SeedEnd
    \/ \E id \in DOMAIN ftrs, outcome \in ConnectOutcomes : Connect(id, outcome)
    \/ \E id \in DOMAIN ftrs, closed_ok \in BOOLEAN : Shutdown(id, closed_ok)
    \/ Return

SpecStatic == Init /\ [][NextStatic]_vars

-----------------------------------------------------------------------------
\* ports_parse and addresses_parse called alone, as the unit tests call them

PortsAlphabet == {"1", "9", "-", ",", " ", "a"}
AddrsAlphabet == {"A", "N", "h", "d", "x", "f", "u", ",", " "}

PortsParseCall ==
    /\ pc = "ports_parse"
    /\ ~pp_out.done
    /\ pp_out' = [done |-> TRUE, panicked |-> ports_parse(pp_in).panicked,
                  pv |-> ports_parse(pp_in).pv]
    /\ UNCHANGED <<scan_vars, pp_in, ap_in, ap_out>>

InitPorts ==
    /\ pc = "ports_parse" /\ ScanIdle
    /\ pp_in \in StringsUpTo(PortsAlphabet, MaxPortsLen)
    /\ pp_out = [done |-> FALSE, panicked |-> FALSE, pv |-> <<>>]
    /\ ap_in = <<>> /\ ap_out = [done |-> FALSE, ips |-> <<>>]

NextPorts == PortsParseCall

SpecPorts == InitPorts /\ [][NextPorts]_vars

AddressesParseCall ==
    /\ pc = "addresses_parse"
    /\ ~ap_out.done
    /\ ap_out' = [done |-> TRUE, ips |-> addresses_parse(ap_in)]
    /\ UNCHANGED <<scan_vars, pp_in, pp_out, ap_in>>

InitAddrs ==
    /\ pc = "addresses_parse" /\ ScanIdle
    /\ ap_in \in StringsUpTo(AddrsAlphabet, MaxAddrsLen)
    /\ ap_out = [done |-> FALSE, ips |-> <<>>]
    /\ pp_in = <<>> /\ pp_out = [done |-> FALSE, panicked |-> FALSE, pv |-> <<>>]

NextAddrs == AddressesParseCall

SpecAddrs == InitAddrs /\ [][NextAddrs]_vars

-----------------------------------------------------------------------------
\* SockIter pulled alone: sock_it.next() called until it has answered None
\* MaxNonePulls times

\* longest ports and ips sequence handed to SockIter::new alone
MaxIterLen == 3
\* how often the exhausted iterator is pulled again
MaxNonePulls == 3

SockIterPull ==
    /\ pc = "sockiter"
    /\ none_pulls < MaxNonePulls
    /\ LET nx == SockIter_next(sock_it, ips, ports) IN
       /\ sock_it' = nx.it
       /\ launched' = IF nx.some THEN Append(launched, nx.item) ELSE launched
       /\ none_pulls' = IF nx.some THEN none_pulls ELSE none_pulls + 1
    /\ UNCHANGED <<ips, ports, batch, tries, tries_arg, printlevel, rt_print, pc, panic,
                   seed_i, ftrs, open_soc, printed, settled, fatal_probe, target, parse_vars>>

InitIter ==
    /\ pc = "sockiter"
    /\ ips \in StringsUpTo({"ipA", "ipB"}, MaxIterLen)
    /\ ports \in StringsUpTo({80, 443}, MaxIterLen)
    /\ sock_it = SockIter_new(ips, ports)
    /\ batch = 0 /\ tries = 1 /\ tries_arg = 0 /\ printlevel = 0 /\ rt_print = FALSE
    /\ panic = "" /\ seed_i = 0 /\ ftrs = <<>> /\ open_soc = <<>> /\ printed = <<>>
    /\ launched = <<>> /\ settled = <<>> /\ none_pulls = 0
    /\ fatal_probe = new_probe(NoSocket)
    /\ target = <<>>
    /\ ParseIdle

NextIter == SockIterPull

SpecIter == InitIter /\ [][NextIter]_vars

-----------------------------------------------------------------------------
\* Properties

\* |ports| x |ips|
TargetSpace == Len(ports) * Len(ips)

\* the probes launched and not yet settled
InFlight == Cardinality(DOMAIN ftrs)

\* the socket of every Ok settlement, in settlement order
SettledOpen ==
    LET ok == SelectSeq(settled, LAMBDA r : r.res = "Ok") IN
    [i \in 1..Len(ok) |-> ok[i].socket]

\* the k-th pair (1-based) of ports_ x ips_ in port-major order
PortMajor(k, ips_, ports_) ==
    SocketAddr(ips_[((k - 1) % Len(ips_)) + 1], ports_[((k - 1) \div Len(ips_)) + 1])

\* C1: in every state of a scan, seeding included, the number of probes launched
\* and not yet settled is at most min(batch, |ports| x |ips|).
C1_BoundedConcurrency == InFlight <= Min(batch, TargetSpace)

\* a scan of four pairs with batch 2 is full again after a settlement refilled it
C1_Witness ==
    /\ pc = "loop" /\ batch = 2 /\ TargetSpace = 4
    /\ Len(settled) >= 1 /\ InFlight = 2 /\ Len(launched) = 3

\* C2 as stated: a scan that returns normally returns one outcome per pair of the
\* target space, the Closed ones included.
C2_OneOutcomePerPair ==
    pc = "returned" =>
        /\ Len(open_soc) = TargetSpace
        /\ \A i \in 1..Len(settled) :
              \E j \in 1..Len(open_soc) : open_soc[j] = settled[i].socket

\* C2 amended: a scan that returns normally returns exactly the sockets of the
\* probes that settled Open, one entry each, in settlement order; a probe that
\* settled Closed has no entry.
C2_OpenOutcomesOnly == pc = "returned" => open_soc = SettledOpen

\* a scan of four pairs returned with an Open and a Closed settlement
C2_Witness ==
    /\ pc = "returned" /\ Len(settled) = 4 /\ TargetSpace = 4
    /\ \E i \in 1..4 : settled[i].res = "Ok"
    /\ \E i \in 1..4 : settled[i].res = "Err"
    /\ Len(open_soc) < 4

\* C3: a settled probe whose connects all failed transiently made exactly tries
\* attempts and settled Closed; one whose first successful connect was attempt j
\* made exactly j attempts and settled Open.
C3_RetrySemantics ==
    \A i \in 1..Len(settled) :
        LET r == settled[i] IN
        /\ r.ok_at = 0 => (r.attempts = tries /\ r.res = "Err")
        /\ r.ok_at > 0 => (r.attempts = r.ok_at /\ r.res = "Ok")

\* C4: a connect that fails with "too many open files", on any attempt, ends the
\* run with the panic: the probe makes no further attempt, nothing is launched or
\* settled from then on, and the run never returns a result.
C4_FatalShortCircuit ==
    [][/\ (\E id \in DOMAIN ftrs : Connect(id, "too many open files")) =>
              /\ pc' = "panicked" /\ panic' = "Too many open files"
              /\ launched' = launched /\ settled' = settled /\ open_soc' = open_soc
              /\ DOMAIN ftrs' = {}
       /\ pc = "panicked" =>
              /\ pc' = "panicked" /\ panic' = panic
              /\ launched' = launched /\ settled' = settled /\ DOMAIN ftrs' = {}
      ]_vars

\* the fatal error hit a retry while pairs were still unlaunched
C4_Witness ==
    /\ pc = "panicked" /\ panic = "Too many open files"
    /\ fatal_probe.attempts = 2 /\ fatal_probe.ntry = 1
    /\ Len(launched) < TargetSpace

\* C5: the k-th pair the enumerator yields is (ips[k mod |ips|], ports[k div |ips|]),
\* it yields |ports| x |ips| pairs, and once it has answered None it answers None
\* to every further pull.
C5_PortMajorOrder ==
    /\ Len(launched) <= TargetSpace
    /\ \A k \in 1..Len(launched) : launched[k] = PortMajor(k, ips, ports)
    /\ none_pulls > 0 => Len(launched) = TargetSpace

\* ports [80, 443] and ips [A, B] pulled to the end and twice more
C5_Witness ==
    /\ pc = "sockiter"
    /\ ports = <<80, 443>> /\ ips = <<"ipA", "ipB">>
    /\ launched = <<SocketAddr("ipA", 80), SocketAddr("ipB", 80),
                    SocketAddr("ipA", 443), SocketAddr("ipB", 443)>>
    /\ none_pulls = 3

\* C6: scan_tcp_connect returns only once the enumerator is exhausted and every
\* launched probe has settled, whatever batch the constructor was given.
C6_ReturnsWhenDrained ==
    pc = "returned" =>
        /\ Len(launched) = TargetSpace
        /\ InFlight = 0
        /\ Len(settled) = Len(launched)

\* a field of seg written with digits only
IsNumber(field) == field # <<>> /\ \A i \in 1..Len(field) : IsDigit(field[i])

\* the segment is a range a-b with a > b
IsDescendingRange(seg) ==
    LET f == split(seg, "-") IN
    /\ Len(f) = 2 /\ parse_u16(f[1]).ok /\ parse_u16(f[2]).ok
    /\ parse_u16(f[1]).val > parse_u16(f[2]).val

\* the segment is none of: a port, a range of two ports
IsMalformedSegment(seg) ==
    LET f == split(seg, "-") IN
    \/ Len(f) > 2
    \/ \E i \in 1..Len(f) : ~IsNumber(f[i])
    \/ IsDescendingRange(seg)

Segments(s) == split(filter_whitespace(s), ",")

\* C7: ports_parse fails on every spec with a malformed segment (a > b, not a
\* number, more than two fields), and a sequence it returns is never empty.
C7_MalformedRejected ==
    pp_out.done =>
        /\ (\E i \in 1..Len(Segments(pp_in)) : IsMalformedSegment(Segments(pp_in)[i]))
               => pp_out.panicked
        /\ ~pp_out.panicked => pp_out.pv # <<>>

\* the states in which scan_tcp_connect is running or has returned
Scanning == pc \in {"seed", "loop", "returned"}

IsWellFormedSegment(seg) ==
    LET f == split(seg, "-") IN
    /\ Len(f) \in {1, 2}
    /\ \A i \in 1..Len(f) : IsNumber(f[i]) /\ parse_u16(f[i]).ok
    /\ Len(f) = 2 => parse_u16(f[1]).val <= parse_u16(f[2]).val

IsWellFormed(s) ==
    \A i \in 1..Len(Segments(s)) : IsWellFormedSegment(Segments(s)[i])

\* first and last port of a well-formed segment
SegLo(seg) == parse_u16(split(seg, "-")[1]).val
SegHi(seg) == parse_u16(split(seg, "-")[Len(split(seg, "-"))]).val

\* the sequences of segs concatenated in order
RECURSIVE Flatten(_)
Flatten(seqs) == IF seqs = <<>> THEN <<>> ELSE Head(seqs) \o Flatten(Tail(seqs))

\* lo, lo+1, ..., hi
Ascending(lo, hi) == [j \in 1..(hi - lo + 1) |-> lo + j - 1]

\* C9: for a well-formed spec ports_parse returns, in segment order, each
\* segment's expansion: p gives [p], a-b gives a, a+1, ..., b; duplicates are
\* kept and whitespace is ignored.
C9_PortsExpansion ==
    (pp_out.done /\ IsWellFormed(pp_in)) =>
        /\ ~pp_out.panicked
        /\ pp_out.pv = Flatten([i \in 1..Len(Segments(pp_in)) |->
                                   Ascending(SegLo(Segments(pp_in)[i]),
                                             SegHi(Segments(pp_in)[i]))])

\* "1-9,1": a range, then a port the range already gave
C9_Witness ==
    /\ pp_in = <<"1", "-", "9", ",", "1">>
    /\ pp_out.done
    /\ pp_out.pv = <<1, 2, 3, 4, 5, 6, 7, 8, 9, 1>>

\* what one token adds: the addresses it resolves to, else the addresses of the
\* readable file it names, else nothing
TokenAddrs(tok) ==
    IF address_parse(tok) # <<>> THEN address_parse(tok)
    ELSE IF is_file(tok) /\ file_lines(tok).ok THEN read_addresses_from_file(tok).ips
    ELSE <<>>

\* C10: addresses_parse returns the concatenation, in token order with
\* duplicates kept, of what each token resolves to; a token that resolves to
\* nothing and is no readable file adds nothing and the tokens after it are
\* processed all the same.
C10_PerTokenResolution ==
    ap_out.done =>
        ap_out.ips = Flatten([i \in 1..Len(split(filter_whitespace(ap_in), ",")) |->
                                 TokenAddrs(split(filter_whitespace(ap_in), ",")[i])])

\* an unresolvable token ahead of a CIDR block
C10_Witness ==
    /\ ap_in = <<"x", ",", "N">>
    /\ ap_out.done
    /\ ap_out.ips = <<"ipN0", "ipN1">>

\* C11: a probe whose connect succeeded settles Open and its socket is in the
\* returned list, whatever the close of the connection resulted in; the close
\* comes before the result.
C11_ConnectedSettlesOpen ==
    \A i \in 1..Len(settled) :
        settled[i].ok_at > 0 =>
            /\ settled[i].res = "Ok"
            /\ \E j \in 1..Len(open_soc) : open_soc[j] = settled[i].socket

\* the pairs in the returned list
OpenSet == {open_soc[i] : i \in 1..Len(open_soc)}

\* C12: against a static target a completed scan with batch >= 1 classifies Open
\* exactly the pairs whose host accepts and closes cleanly: the set is decided by
\* the target alone, whatever the batch, the tries and the order of settlement.
C12_StaticClassification ==
    (pc = "returned" /\ batch >= 1) =>
        /\ DOMAIN target = TargetPairs
        /\ OpenSet = {s \in TargetPairs : target[s].connect = "connected" /\ target[s].close_ok}

\* two of four pairs are open and the one launched second settled first
C12_Witness ==
    /\ pc = "returned" /\ TargetSpace = 4 /\ batch = 2
    /\ open_soc = <<PortMajor(2, ips, ports), PortMajor(1, ips, ports)>>

\* C13: with rt_print set, the lines printed so far are, in every state of the
\* scan, exactly the sockets of the Ok settlements so far, one line each in
\* settlement order, and equal the open list built so far; an Err settlement
\* prints nothing.
C13_RealTimePrint == rt_print => (printed = SettledOpen /\ printed = open_soc)

\* one Closed and one Open settlement, the Open one printed while probes are
\* still in flight
C13_Witness ==
    /\ rt_print /\ pc = "loop" /\ InFlight >= 1
    /\ Len(settled) = 2 /\ settled[1].res = "Err" /\ settled[2].res = "Ok"
    /\ printed = <<settled[2].socket>>

\* the first n pairs of the target space in the enumerator's order
Enumerated(n) == [k \in 1..n |-> PortMajor(k, ips, ports)]

\* C14: a scan with rt_print unset prints nothing, and what a scan launches and
\* returns is decided by ips, ports, batch and the sequence of settlements
\* alone: the probes launched are the first min(n, batch + settlements) pairs of
\* the enumeration, each settlement is of the probe launched under its id, and
\* the list is the sockets of the Ok settlements in order. rt_print has no part
\* in any of them, so two scans that differ only in rt_print launch and return
\* the same.
C14_PrintModeOnlyPrints ==
    /\ ~rt_print => printed = <<>>
    /\ pc \in {"loop", "returned"} =>
           launched = Enumerated(Min(TargetSpace, batch + Len(settled)))
    /\ \A i \in 1..Len(settled) :
           /\ settled[i].id \in 1..Len(launched)
           /\ settled[i].socket = launched[settled[i].id]
    /\ open_soc = SettledOpen

\* a scan of four pairs with rt_print unset returned an open pair in silence
C14_Witness ==
    /\ ~rt_print /\ pc = "returned" /\ TargetSpace = 4
    /\ Len(open_soc) >= 1 /\ Len(settled) = 4 /\ printed = <<>>

\* C15: while the scheduler waits for a settlement the pool is full as long as
\* the enumerator has a pair left, and is below batch only once it is exhausted;
\* seeding launches min(batch, |ports| x |ips|) probes, and every settlement,
\* Ok or Err, launches exactly one probe when a pair is left and none otherwise.
C15_PoolStaysFull ==
    /\ [](pc = "loop" =>
            /\ Len(launched) < TargetSpace => InFlight = batch
            /\ InFlight < batch => Len(launched) = TargetSpace
            /\ settled = <<>> => Len(launched) = Min(batch, TargetSpace))
    /\ [][Len(settled') = Len(settled) + 1 =>
            Len(launched') = Len(launched) + (IF Len(launched) < TargetSpace THEN 1 ELSE 0)
         ]_vars

\* a Closed settlement of a scan of four pairs with batch 2 was replaced at once
C15_Witness ==
    /\ pc = "loop" /\ batch = 2 /\ TargetSpace = 4
    /\ Len(settled) = 1 /\ settled[1].res = "Err"
    /\ InFlight = 2 /\ launched = Enumerated(3)

\* C16: the probes launched are the pairs of the enumeration, each once and none
\* skipped; a scan that returns normally has launched |ports| x |ips| probes and
\* every one of them has settled exactly once.
C16_EachPairClaimedOnce ==
    /\ Len(launched) <= TargetSpace
    /\ launched = Enumerated(Len(launched))
    /\ \A i, j \in 1..Len(settled) : settled[i].id = settled[j].id => i = j
    /\ pc = "returned" =>
           /\ Len(launched) = TargetSpace
           /\ {settled[i].id : i \in 1..Len(settled)} = 1..Len(launched)

\* C17: with batch >= 1 a started scan ends: it returns, and then every pair has
\* been probed and every probe that settled closed without connecting has used all
\* its tries, or it stops on the fatal resource error; it does not stay in the
\* scan forever.
C17_ScanEnds ==
    /\ (pc \in {"seed", "loop"} /\ batch >= 1) ~> (pc \in {"returned", "panicked"})
    /\ [](pc = "returned" /\ batch >= 1 =>
            /\ Len(settled) = TargetSpace
            /\ DOMAIN ftrs = {}
            /\ \A i \in 1..Len(settled) :
                 (settled[i].res = "Err" /\ settled[i].ok_at = 0) => settled[i].attempts = tries)
    /\ [](pc = "panicked" /\ launched # <<>> => panic = "Too many open files")

C17_Witness ==
    /\ pc = "returned" /\ batch = 1 /\ tries = 2 /\ TargetSpace = 2
    /\ Len(settled) = 2
    /\ settled[1].res = "Err" /\ settled[1].attempts = 2
    /\ settled[2].res = "Ok" /\ settled[2].attempts = 2

\* C18: for every probe waiting on a connect, the timeout elapsing leaves it as a
\* refused connection does: on attempt i < tries it goes straight to the next try,
\* on attempt i = tries it settles Err (closed); the timeout elapsing yields no
\* Ok and no panic.
C18_TimeoutAsFailure ==
    \A id \in DOMAIN ftrs : ftrs[id].phase = "connect" =>
        LET p == ftrs[id]
            i == p.attempts + 1
            e == connect_step(p, "elapsed", tries)
            r == connect_step(p, "refused", tries)
        IN /\ e = r
           /\ e.kind \in {"pending", "ready"}
           /\ e.res # "Ok"
           /\ e.probe.ok_at = 0
           /\ i < tries => /\ e.kind = "pending"
                           /\ e.probe = [p EXCEPT !.attempts = i, !.ntry = p.ntry + 1]
           /\ i >= tries => e.kind = "ready" /\ e.res = "Err" /\ e.probe.attempts = i

\* a probe on its second and last try, next to one on its first of two
C18_Witness ==
    /\ pc = "loop" /\ tries = 2
    /\ \E id \in DOMAIN ftrs :
         ftrs[id].phase = "connect" /\ ftrs[id].ntry = 1 /\ ftrs[id].attempts = 1
    /\ \E id \in DOMAIN ftrs :
         ftrs[id].phase = "connect" /\ ftrs[id].ntry = 0 /\ ftrs[id].attempts = 0

\* open_soc as it stood is the start of what it is now
IsPrefix(s, t) == Len(s) <= Len(t) /\ \A i \in 1..Len(s) : s[i] = t[i]

\* C19: open_soc lists the open pairs in the order their results were taken from
\* ftrs, whatever the order they were launched in; a step appends to open_soc or
\* leaves it, and never reorders or removes what is in it.
C19_CompletionOrder ==
    /\ [](\E f \in [1..Len(open_soc) -> 1..Len(settled)] :
            /\ \A i \in 1..Len(open_soc) :
                 settled[f[i]].res = "Ok" /\ settled[f[i]].socket = open_soc[i]
            /\ \A i, j \in 1..Len(open_soc) : i < j => f[i] < f[j]
            /\ \A k \in 1..Len(settled) :
                 settled[k].res = "Ok" => \E i \in 1..Len(open_soc) : f[i] = k)
    /\ [][IsPrefix(open_soc, open_soc') /\ Len(open_soc') <= Len(open_soc) + 1]_vars

\* the pair launched second was taken first, and is first in the returned list
C19_Witness ==
    /\ pc = "returned" /\ Len(settled) >= 2
    /\ settled[1].id = 2 /\ settled[1].res = "Ok"
    /\ settled[2].id = 1 /\ settled[2].res = "Ok"
    /\ Len(open_soc) >= 2
    /\ open_soc[1] = launched[2] /\ open_soc[2] = launched[1]

\* C20: whatever tries argument the scanner was built with, the for loop of a
\* probe is left by a return or by the panic inside it: unreachable!() is not met,
\* every probe waiting on a connect is inside the range 0..tries, tries - 1 is not
\* negative, and no probe makes more than max(tries argument, 1) connect attempts.
C20_RetryLoopLeaves ==
    /\ tries - 1 >= 0
    /\ panic # "ports_parse" => tries = Max(tries_arg, 1)    \* a scanner was built
    /\ panic # "unreachable"
    /\ \A id \in DOMAIN ftrs :
         /\ ftrs[id].attempts <= Max(tries_arg, 1)
         /\ ftrs[id].phase = "connect" =>
              /\ ftrs[id].attempts < Max(tries_arg, 1)
              /\ \A outcome \in ConnectOutcomes :
                   connect_step(ftrs[id], outcome, tries).kind # "unreachable"
    /\ \A i \in 1..Len(settled) : settled[i].attempts \in 1..Max(tries_arg, 1)
    /\ fatal_probe.attempts <= Max(tries_arg, 1)

\* a scanner built with tries = 0 has scanned: one attempt for the pair that
\* settled closed
C20_Witness ==
    /\ pc = "returned" /\ tries_arg = 0 /\ tries = 1
    /\ Len(settled) >= 1
    /\ settled[1].res = "Err" /\ settled[1].ok_at = 0 /\ settled[1].attempts = 1

\* how many times s is in seq
Occurrences(seq, s) == Cardinality({i \in 1..Len(seq) : seq[i] = s})

\* the settlements of probes of pair s that had a connect succeed within the tries
ConnectedSettlements(s) ==
    {k \in 1..Len(settled) :
        /\ settled[k].socket = s
        /\ settled[k].ok_at \in 1..tries
        /\ settled[k].id \in 1..Len(launched)
        /\ launched[settled[k].id] = s}

\* C21: every address in open_soc is a pair the enumerator produced for this scan
\* and a probe of it had a connect succeed; a pair none of whose probes had a
\* connect succeed is not in open_soc, and a pair is in open_soc at most as often
\* as it was produced.
C21_OpenListSound ==
    /\ \A i \in 1..Len(open_soc) :
         /\ \E k \in 1..Len(launched) : launched[k] = open_soc[i]
         /\ ConnectedSettlements(open_soc[i]) # {}
         /\ Occurrences(open_soc, open_soc[i]) <= Cardinality(ConnectedSettlements(open_soc[i]))
         /\ Occurrences(open_soc, open_soc[i]) <= Occurrences(launched, open_soc[i])
    /\ \A k \in 1..Len(settled) :
         ConnectedSettlements(settled[k].socket) = {} =>
             \A i \in 1..Len(open_soc) : open_soc[i] # settled[k].socket

\* returned with one pair open after a retry and one closed after both tries,
\* one of them timed out
C21_Witness ==
    /\ pc = "returned" /\ tries = 2 /\ Len(settled) = 2
    /\ settled[1].res = "Err" /\ settled[1].ok_at = 0 /\ settled[1].attempts = 2
    /\ settled[2].res = "Ok" /\ settled[2].ok_at = 2
    /\ open_soc = <<settled[2].socket>>
    /\ settled[1].socket # settled[2].socket

====
